---- MODULE Spec2Model ----
\* Fetch-decode stage of the CHIP-8 interpreter in src/src/main.rs:
\* the operand types (Address, Const8, Const4, Var), Memory (new,
\* load_program, fetch_opcode), SystemState and main.
EXTENDS Integers, Sequences, FiniteSets, TLC

VARIABLES
    rom,        \* the bytes load_program's read() stored at data[0x200..]
    registers,  \* SystemState.registers
    pc,         \* SystemState.pc
    sp,         \* SystemState.sp
    at,         \* position of the run: "new", "loaded", "converted", "fetched", "printed", "panicked"
    arg,        \* the usize last passed to Address::from(usize)
    address,    \* the Address that conversion returned
    parts,      \* the local `parts` of the last fetch_opcode
    opcode,     \* the Option<OpCode> the last fetch_opcode returned
    stdout,     \* the lines printed so far
    panic       \* the panic message, "" while the run has not panicked

vars == <<rom, registers, pc, sp, at, arg, address, parts, opcode, stdout, panic>>

\* ---------------------------------------------------------------- bounds
\* Largest usize handed to Address::from(usize) in Spec.
MaxOffset == 4098

\* ---------------------------------------------------------------- constants
MemSize == 4096      \* data: [u8; 4096]
ProgramBase == 512   \* 0x200: read(&mut self.data[0x200..]) and pc: 0x200
AddressMax == 4095   \* 0xFFF
OpcodeLen == 2       \* &self.data[idx..idx + 2]
U8 == 8
U16 == 16

Byte == 0..255
Nibble == 0..15

\* ---------------------------------------------------------------- integer operators
RECURSIVE BitAnd(_, _)
BitAnd(a, b) ==
    IF a = 0 \/ b = 0 THEN 0
    ELSE (a % 2) * (b % 2) + 2 * BitAnd(a \div 2, b \div 2)

RECURSIVE BitOr(_, _)
BitOr(a, b) ==
    IF a = 0 THEN b
    ELSE IF b = 0 THEN a
    ELSE (IF a % 2 = 1 \/ b % 2 = 1 THEN 1 ELSE 0) + 2 * BitOr(a \div 2, b \div 2)

\* a << n and a >> n on a w-bit unsigned integer
Shl(a, n, w) == (a * 2^n) % 2^w
Shr(a, n) == a \div 2^n

\* a << n on usize operands too small to overflow
ShlUsize(a, n) == a * 2^n

\* `value as u16` from a wider unsigned integer
AsU16(value) == value % 2^U16

\* ---------------------------------------------------------------- operand types
Address(v) == [type |-> "Address", v |-> v]
Const8(v) == [type |-> "Const8", v |-> v]
Const4(v) == [type |-> "Const4", v |-> v]
Var(v) == [type |-> "Var", v |-> v]

\* Address from nibbles with the shift of the middle nibble left out
AddressFromNibblesNoShift(addr) ==
    Address(BitOr(BitOr(Shl(addr[1], 8, U16), addr[2]), addr[3]))

\* impl From<&[u8; 3]> for Address
AddressFromNibbles(addr) ==
    Address(BitOr(BitOr(Shl(addr[1], 8, U16), Shl(addr[2], 4, U16)), addr[3]))

\* the range check written with >= in place of >
AddressFromUsizePanicsOffByOne(value) == value >= AddressMax

\* impl From<usize> for Address: the value it returns when it does not panic
AddressFromUsizePanics(value) == value > AddressMax
AddressFromUsize(value) == Address(AsU16(value))

\* impl From<Address> for usize
UsizeFromAddress(a) == a.v

\* impl From<&[u8; 2]> for Const8: data[0 << 4] | data[1]; the index of the
\* first operand is the value of 0 << 4 (sequences here count from 1)
Const8FromNibbles(data) == Const8(BitOr(data[ShlUsize(0, 4) + 1], data[2]))

\* ---------------------------------------------------------------- Memory
\* Memory::new zeroes data; load_program is the only writer, so data[i] is the
\* byte read() stored there, or 0
data(i) ==
    IF i >= ProgramBase /\ i - ProgramBase < Len(rom)
    THEN rom[i - ProgramBase + 1]
    ELSE 0

\* &self.data[idx..idx + 2] panics when idx + 2 exceeds the array's length
SliceInBounds(idx) == idx + OpcodeLen <= MemSize
Slice(idx) == [k \in 1..OpcodeLen |-> data(idx + k - 1)]

\* let parts = [(opc[0] & 0xF0) >> 4, opc[0] & 0x0F, (opc[1] & 0xF0) >> 4, opc[1] & 0x0F]
Parts(opc) ==
    << Shr(BitAnd(opc[1], 240), 4),
       BitAnd(opc[1], 15),
       Shr(BitAnd(opc[2], 240), 4),
       BitAnd(opc[2], 15) >>

\* ---------------------------------------------------------------- the match of fetch_opcode
\* One arm per line of the match, in the order of the source. pat gives, for
\* each of the four nibbles, the values the arm's pattern admits (a binding or
\* a rest pattern admits every nibble); args names the operands the arm builds.
Lit(n) == {n}
Arm(p0, p1, p2, p3, op, args) == [pat |-> <<p0, p1, p2, p3>>, op |-> op, args |-> args]

Arms ==
    << Arm(Lit(0),  Lit(0), Lit(14), Lit(14), "Ret",            "none"),
       Arm(Lit(0),  Lit(0), Lit(14), Lit(0),  "Clear",          "none"),
       Arm(Lit(0),  Nibble, Nibble,  Nibble,  "CallRoutine",    "addr"),
       Arm(Lit(1),  Nibble, Nibble,  Nibble,  "Jmp",            "addr"),
       Arm(Lit(2),  Nibble, Nibble,  Nibble,  "CallSubroutine", "addr"),
       Arm(Lit(3),  Nibble, Nibble,  Nibble,  "SkipConstEq",    "x_rest"),
       Arm(Lit(4),  Nibble, Nibble,  Nibble,  "SkipConstNe",    "x_rest"),
       Arm(Lit(5),  Nibble, Nibble,  Lit(0),  "SkipEq",         "x_y"),
       Arm(Lit(6),  Nibble, Nibble,  Nibble,  "SetConst",       "x_rest"),
       Arm(Lit(7),  Nibble, Nibble,  Nibble,  "AddConst",       "x_rest"),
       Arm(Lit(8),  Nibble, Nibble,  Lit(0),  "Set",            "x_y"),
       Arm(Lit(8),  Nibble, Nibble,  Lit(1),  "BitOR",          "x_y"),
       Arm(Lit(8),  Nibble, Nibble,  Lit(2),  "BitAND",         "x_y"),
       Arm(Lit(8),  Nibble, Nibble,  Lit(3),  "BitXOR",         "x_y"),
       Arm(Lit(8),  Nibble, Nibble,  Lit(4),  "AddEqReg",       "x_y"),
       Arm(Lit(8),  Nibble, Nibble,  Lit(5),  "SubEqReg",       "x_y"),
       Arm(Lit(8),  Nibble, Nibble,  Lit(6),  "BitRShift",      "x_y"),
       Arm(Lit(8),  Nibble, Nibble,  Lit(7),  "SubReg",         "x_y"),
       Arm(Lit(8),  Nibble, Nibble,  Lit(14), "BitLShift",      "x_y"),
       Arm(Lit(9),  Nibble, Nibble,  Lit(0),  "SkipNe",         "x_y"),
       Arm(Lit(10), Nibble, Nibble,  Nibble,  "IToAddr",        "addr"),
       Arm(Lit(11), Nibble, Nibble,  Nibble,  "SetPc",          "addr"),
       Arm(Lit(12), Nibble, Nibble,  Nibble,  "Rand",           "x_rest"),
       Arm(Lit(13), Nibble, Nibble,  Nibble,  "Draw",           "x_y_c"),
       Arm(Lit(14), Nibble, Lit(9),  Lit(14), "KeyEq",          "x"),
       Arm(Lit(14), Nibble, Lit(10), Lit(1),  "KeyNe",          "x"),
       Arm(Lit(15), Nibble, Lit(0),  Lit(7),  "GetTimer",       "x"),
       Arm(Lit(15), Nibble, Lit(1),  Lit(10), "AwaitKey",       "x"),
       Arm(Lit(15), Nibble, Lit(1),  Lit(5),  "SetDelayTimer",  "x"),
       Arm(Lit(15), Nibble, Lit(1),  Lit(8),  "SetSoundTimer",  "x"),
       Arm(Lit(15), Nibble, Lit(1),  Lit(14), "IAdd",           "x"),
       Arm(Lit(15), Nibble, Lit(2),  Lit(9),  "ISetSprite",     "x"),
       Arm(Lit(15), Nibble, Lit(3),  Lit(3),  "StoreBCD",       "x"),
       Arm(Lit(15), Nibble, Lit(5),  Lit(5),  "RegDump",        "x"),
       Arm(Lit(15), Nibble, Lit(6),  Lit(5),  "RegLoad",        "x") >>

\* patterns compared on the first three nibbles only
MatchingArmsFirstThree(p) ==
    {i \in 1..Len(Arms) : \A k \in 1..3 : p[k] \in Arms[i].pat[k]}

\* the arms, other than the final `_` arm, whose pattern matches the quartet
MatchingArms(p) ==
    {i \in 1..Len(Arms) : \A k \in 1..4 : p[k] \in Arms[i].pat[k]}

\* the operands with the two registers of a two-register arm exchanged
OperandsSwapped(args, p) ==
    CASE args = "none"   -> <<>>
      [] args = "addr"   -> <<AddressFromNibbles(SubSeq(p, 2, 4))>>
      [] args = "x_rest" -> <<Var(p[2]), Const8FromNibbles(SubSeq(p, 3, 4))>>
      [] args = "x_y"    -> <<Var(p[3]), Var(p[2])>>
      [] args = "x_y_c"  -> <<Var(p[3]), Var(p[2]), Const4(p[4])>>
      [] args = "x"      -> <<Var(p[2])>>

\* the operands an arm builds from the quartet
Operands(args, p) ==
    CASE args = "none"   -> <<>>
      [] args = "addr"   -> <<AddressFromNibbles(SubSeq(p, 2, 4))>>
      [] args = "x_rest" -> <<Var(p[2]), Const8FromNibbles(SubSeq(p, 3, 4))>>
      [] args = "x_y"    -> <<Var(p[2]), Var(p[3])>>
      [] args = "x_y_c"  -> <<Var(p[2]), Var(p[3]), Const4(p[4])>>
      [] args = "x"      -> <<Var(p[2])>>

\* Option<OpCode>
Some(op, operands) == [tag |-> "Some", op |-> op, operands |-> operands]
None == [tag |-> "None", op |-> "", operands |-> <<>>]
NotFetched == [tag |-> "", op |-> "", operands |-> <<>>]

\* the last matching arm taken in place of the first
FirstArmLast(matching) == CHOOSE i \in matching : \A j \in matching : i >= j

\* the arm a match takes: the first one, in source order, whose pattern matches
FirstArm(matching) == CHOOSE i \in matching : \A j \in matching : i <= j

\* a match without the final `_` arm: an unmatched quartet returns nothing
MatchNoDefault(p) ==
    IF MatchingArms(p) = {}
    THEN NotFetched
    ELSE LET arm == Arms[FirstArm(MatchingArms(p))]
         IN  Some(arm.op, Operands(arm.args, p))

\* return match parts { ... }: the value returned
Match(p) ==
    IF MatchingArms(p) = {}
    THEN None
    ELSE LET arm == Arms[FirstArm(MatchingArms(p))]
         IN  Some(arm.op, Operands(arm.args, p))

\* what the match prints: the `_` arm's println!("Unkown opcode for {:x?}", parts)
MatchPrints(p) ==
    IF MatchingArms(p) = {}
    THEN <<[fmt |-> "Unkown opcode for {:x?}", value |-> p]>>
    ELSE <<>>

\* ---------------------------------------------------------------- actions
NoAddress == Address(0)

\* SystemState::new, at the start of main
Init ==
    /\ rom = <<>>
    /\ registers = [r \in 0..15 |-> 0]
    /\ pc = ProgramBase
    /\ sp = 0
    /\ at = "new"
    /\ arg = 0
    /\ address = NoAddress
    /\ parts = <<>>
    /\ opcode = NotFetched
    /\ stdout = <<>>
    /\ panic = ""

Min(a, b) == IF a <= b THEN a ELSE b

\* Memory::load_program on a file that exists: read() stores the first n bytes of
\* the file at data[0x200..], n at most the file's length and the buffer's
LoadProgram(file, n) ==
    /\ at = "new"
    /\ n <= Min(Len(file), MemSize - ProgramBase)
    /\ rom' = SubSeq(file, 1, n)
    /\ at' = "loaded"
    /\ UNCHANGED <<registers, pc, sp, arg, address, parts, opcode, stdout, panic>>

\* Memory::load_program on a missing file: expect("File should exist")
LoadMissing ==
    /\ at = "new"
    /\ at' = "panicked"
    /\ panic' = "File should exist"
    /\ UNCHANGED <<rom, registers, pc, sp, arg, address, parts, opcode, stdout>>

\* Address::from(value: usize), the argument of fetch_opcode
AddressFrom(value) ==
    /\ at = "loaded"
    /\ arg' = value
    /\ IF AddressFromUsizePanics(value)
       THEN /\ at' = "panicked"
            /\ panic' = "Address is too large"
            /\ UNCHANGED address
       ELSE /\ at' = "converted"
            /\ address' = AddressFromUsize(value)
            /\ UNCHANGED panic
    /\ UNCHANGED <<rom, registers, pc, sp, parts, opcode, stdout>>

\* Memory::fetch_opcode(address)
FetchOpcode ==
    /\ at = "converted"
    /\ LET idx == UsizeFromAddress(address)
       IN  IF ~SliceInBounds(idx)
           THEN /\ at' = "panicked"
                /\ panic' = "range end index out of range for slice"
                /\ UNCHANGED <<parts, opcode, stdout>>
           ELSE /\ at' = "fetched"
                /\ parts' = Parts(Slice(idx))
                /\ opcode' = Match(Parts(Slice(idx)))
                /\ stdout' = stdout \o MatchPrints(Parts(Slice(idx)))
                /\ UNCHANGED panic
    /\ UNCHANGED <<rom, registers, pc, sp, arg, address>>

\* main's println!("first opcode = {:x?}", ...)
PrintOpcode ==
    /\ at = "fetched"
    /\ stdout' = Append(stdout, [fmt |-> "first opcode = {:x?}", value |-> opcode])
    /\ at' = "printed"
    /\ UNCHANGED <<rom, registers, pc, sp, arg, address, parts, opcode, panic>>

\* ---------------------------------------------------------------- specifications
\* The files of Spec: a few short ROMs.
SampleFiles ==
    { <<>>, <<0, 224>>, <<0, 238, 18, 52>>, <<96, 255, 255>>, <<255, 255, 209, 47>> }

\* The files of SpecMain: every ROM that is one opcode long.
WordFiles == [1..OpcodeLen -> Byte]

\* fetch_opcode called with any usize up to MaxOffset, on a few ROMs
Next ==
    \/ at = "new" /\ \E file \in SampleFiles : \E n \in 0..Len(file) : LoadProgram(file, n)
    \/ LoadMissing
    \/ at = "loaded" /\ \E value \in 0..MaxOffset : AddressFrom(value)
    \/ FetchOpcode
    \/ PrintOpcode

Spec == Init /\ [][Next]_vars

\* main: the fetch at state.pc, on every one-opcode ROM
NextMain ==
    \/ at = "new" /\ \E file \in WordFiles : \E n \in 0..Len(file) : LoadProgram(file, n)
    \/ LoadMissing
    \/ AddressFrom(pc)
    \/ FetchOpcode
    \/ PrintOpcode

SpecMain == Init /\ [][NextMain]_vars

\* ---------------------------------------------------------------- the fetched word
\* fetch_opcode has returned
Fetched == at \in {"fetched", "printed"}

\* Address::from(usize) has been called
Converted == at \notin {"new", "loaded"} /\ panic # "File should exist"

\* the two bytes of memory at the address, the 16-bit word they form and its
\* four nibbles, by arithmetic
B0 == data(address.v)
B1 == data(address.v + 1)
Word == B0 * 256 + B1
N0 == B0 \div 16
N1 == B0 % 16
N2 == B1 \div 16
N3 == B1 % 16

\* enum OpCode: the operand types of each variant
OpCode ==
    [ CallRoutine |-> <<"Address">>, Clear |-> <<>>, Ret |-> <<>>,
      Jmp |-> <<"Address">>, CallSubroutine |-> <<"Address">>,
      SkipConstEq |-> <<"Var", "Const8">>, SkipConstNe |-> <<"Var", "Const8">>,
      SkipEq |-> <<"Var", "Var">>,
      SetConst |-> <<"Var", "Const8">>, AddConst |-> <<"Var", "Const8">>,
      Set |-> <<"Var", "Var">>, BitOR |-> <<"Var", "Var">>, BitAND |-> <<"Var", "Var">>,
      BitXOR |-> <<"Var", "Var">>, AddEqReg |-> <<"Var", "Var">>,
      SubEqReg |-> <<"Var", "Var">>, BitRShift |-> <<"Var", "Var">>,
      SubReg |-> <<"Var", "Var">>, BitLShift |-> <<"Var", "Var">>,
      SkipNe |-> <<"Var", "Var">>,
      IToAddr |-> <<"Address">>, SetPc |-> <<"Address">>,
      Rand |-> <<"Var", "Const8">>,
      Draw |-> <<"Var", "Var", "Const4">>,
      KeyEq |-> <<"Var">>, KeyNe |-> <<"Var">>,
      GetTimer |-> <<"Var">>, AwaitKey |-> <<"Var">>, SetDelayTimer |-> <<"Var">>,
      SetSoundTimer |-> <<"Var">>, IAdd |-> <<"Var">>, ISetSprite |-> <<"Var">>,
      StoreBCD |-> <<"Var">>, RegDump |-> <<"Var">>, RegLoad |-> <<"Var">> ]

\* the values of the integer type each operand type wraps (u16 for Address, u8 for the others)
Wrapped(type) == IF type = "Address" THEN 0..(2^U16 - 1) ELSE 0..(2^U8 - 1)

\* o is Some(instruction), one variant of OpCode with operands of its types
IsInstruction(o) ==
    /\ o.tag = "Some"
    /\ o.op \in DOMAIN OpCode
    /\ Len(o.operands) = Len(OpCode[o.op])
    /\ \A k \in 1..Len(o.operands) :
          /\ o.operands[k].type = OpCode[o.op][k]
          /\ o.operands[k].v \in Wrapped(o.operands[k].type)

\* o is the decode failure
IsFailure(o) == o = None

\* ---------------------------------------------------------------- claims
\* C1 (as claimed): in the groups n0 in {3, 4, 6, 7, C} the Const8 operand of the
\* decoded instruction is the low byte of the word, (n2 << 4) | n3.
C1_Const8IsLowByte ==
    (Fetched /\ N0 \in {3, 4, 6, 7, 12}) =>
        /\ IsInstruction(opcode)
        /\ Len(opcode.operands) = 2
        /\ opcode.operands[2] = Const8(B1)

\* C2: decode is total: every fetch of a two-byte window inside memory returns,
\* and what it returns is either one instruction variant or the decode failure,
\* never both and never neither.
C2_DecodeIsTotal ==
    [][at = "converted" =>
          /\ at' = "fetched"
          /\ IsInstruction(opcode') # IsFailure(opcode')]_vars

C2_Witness ==
    /\ at = "fetched"
    /\ Word = 65535
    /\ IsFailure(opcode)
    /\ ~IsInstruction(opcode)

\* C3 (as claimed): a word is a decode failure exactly when it is outside the
\* dispatch table of the specification; every other word yields an instruction.
Unrecognized ==
    \/ N0 = 5 /\ N3 # 0
    \/ N0 = 8 /\ N3 \in {8, 9, 10, 11, 12, 13, 15}
    \/ N0 = 9 /\ N3 # 0
    \/ N0 = 14 /\ B1 \notin {158, 161}
    \/ N0 = 15 /\ B1 \notin {7, 10, 21, 24, 30, 41, 51, 85, 101}

C3_FailureIffOutsideTable ==
    Fetched =>
        /\ IsFailure(opcode) <=> Unrecognized
        /\ IsInstruction(opcode) <=> ~Unrecognized

\* C4 (as claimed): the decode failure returned to the caller carries the raw
\* quartet (n0, n1, n2, n3) of the offending word.
C4_FailureCarriesQuartet ==
    (Fetched /\ opcode.tag = "None") => opcode.operands = <<N0, N1, N2, N3>>

\* C5 (as claimed): at most one arm of the match, other than the final failure
\* arm, matches the quartet of any word.
C5_AtMostOneArm ==
    Fetched => Cardinality(MatchingArms(<<N0, N1, N2, N3>>)) <= 1

\* C5 (amended): at most one arm matches every word other than 0x00EE and 0x00E0;
\* each of these two matches exactly two arms, its fixed pattern and the
\* CallRoutine fallback, and decodes to the variant of the fixed pattern.
C5_AtMostOneArmButFixed ==
    Fetched =>
        LET matching == MatchingArms(<<N0, N1, N2, N3>>)
            ops == {Arms[i].op : i \in matching}
        IN  /\ Word = 238 => ops = {"Ret", "CallRoutine"} /\ opcode.op = "Ret"
            /\ Word = 224 => ops = {"Clear", "CallRoutine"} /\ opcode.op = "Clear"
            /\ Word \in {238, 224} => Cardinality(matching) = 2
            /\ Word \notin {238, 224} => Cardinality(matching) <= 1

C5_Witness ==
    /\ at = "fetched"
    /\ Word = 238
    /\ Cardinality(MatchingArms(parts)) = 2

\* C6: in the group n0 = 0 the word 0x00EE decodes to Ret, 0x00E0 to Clear and
\* every other word to CallRoutine with the address n1n2n3; none is a failure.
C6_GroupZero ==
    (Fetched /\ N0 = 0) =>
        opcode = CASE Word = 238 -> Some("Ret", <<>>)
                   [] Word = 224 -> Some("Clear", <<>>)
                   [] OTHER -> Some("CallRoutine", <<Address(Word)>>)

C6_Witness ==
    /\ at = "fetched"
    /\ Word = 238
    /\ opcode = Some("Ret", <<>>)

\* C7: every word of the groups n0 in {1, 2, A, B} decodes to its variant with
\* the Address whose value is the low 12 bits of the word, a value in 0..4095:
\* the three nibbles reassemble to the value they were cut from.
C7_AddressRoundTrip ==
    (Fetched /\ N0 \in {1, 2, 10, 11}) =>
        /\ opcode = Some(CASE N0 = 1 -> "Jmp"
                           [] N0 = 2 -> "CallSubroutine"
                           [] N0 = 10 -> "IToAddr"
                           [] N0 = 11 -> "SetPc",
                         <<Address(Word % 4096)>>)
        /\ opcode.operands[1].v \in 0..4095

C7_Witness ==
    /\ at = "fetched"
    /\ Word = 4660
    /\ opcode = Some("Jmp", <<Address(564)>>)

\* C8: register and sprite-height operands are the nibbles unchanged: in every
\* instruction with register operands the first Var is n1, in the groups 5, 8, 9
\* and D the second Var is n2, and the Const4 of Draw is n3.
C8_RegisterOperands ==
    (Fetched /\ opcode.tag = "Some") =>
        /\ N0 \in {3, 4, 5, 6, 7, 8, 9, 12, 13, 14, 15} =>
              /\ Len(opcode.operands) >= 1
              /\ opcode.operands[1] = Var(N1)
        /\ N0 \in {5, 8, 9, 13} =>
              /\ Len(opcode.operands) >= 2
              /\ opcode.operands[2] = Var(N2)
        /\ N0 = 13 => opcode = Some("Draw", <<Var(N1), Var(N2), Const4(N3)>>)
        /\ (N0 = 8 /\ N3 = 4) => opcode = Some("AddEqReg", <<Var(N1), Var(N2)>>)

C8_Witness ==
    /\ at = "fetched"
    /\ Word = 53551
    /\ opcode = Some("Draw", <<Var(1), Var(2), Const4(15)>>)

\* C9: Address::from(n) panics exactly when n > 4095; for every n in 0..4095 it
\* returns the address whose value is n, and usize::from of it returns n.
C9_FromOffset ==
    Converted =>
        /\ (panic = "Address is too large") <=> (arg > 4095)
        /\ arg <= 4095 =>
              /\ address = Address(arg)
              /\ UsizeFromAddress(address) = arg

C9_Witness ==
    /\ at = "converted"
    /\ arg = 4095
    /\ address = Address(4095)
    /\ panic = ""

\* C10 (as claimed): for every address the offset-based constructor accepts,
\* fetch_opcode reads inside the memory and returns without crashing.
C10_FetchNeverPanics ==
    (Converted /\ arg <= 4095) => panic = ""

====
